---- MODULE Spec2Model ----
(***************************************************************************)
(* Relation stubs and the materialization factory of dbt-core.             *)
(*                                                                         *)
(*   core/dbt/adapters/materialization/factory.py                          *)
(*   core/dbt/adapters/relation/models/_relation_stub.py                   *)
(*   core/dbt/contracts/graph/unparsed.py                                  *)
(*                                                                         *)
(* Python values are modelled as records.  None is the record NoneValue,   *)
(* a dict is a function whose domain is the set of keys that are present,  *)
(* and the outcome of a call is a record that tells a return from a raise. *)
(***************************************************************************)
EXTENDS Integers, Sequences, FiniteSets, TLC

VARIABLES
    factory,      \* the shared MaterializationFactory: its two attributes
    constructed,  \* the arguments and the result of MaterializationFactory.__init__
    debug,        \* Python's __debug__: FALSE when run with -O, assert statements are then skipped
    calls,        \* per node: the position and the locals of its make_from_runtime_config call
    warehouse,    \* the relation the planned node stands for, as the warehouse holds it
    run,          \* the planning-and-apply step of one node: position, inputs, plan, operations
    op            \* the last call of a method of a stub class or of unparsed.py: class,
                  \* method, input, outcome

vars == <<factory, constructed, debug, calls, warehouse, run, op>>

-----------------------------------------------------------------------------
(* Bounds *)

NumNodes == 2
MaxRuns == 3
MaxCount == 2
MaxNameLen == 3

Nodes == 1..NumNodes

-----------------------------------------------------------------------------
(* Python values *)

NoneValue == [kind |-> "None"]

Return(v) == [kind |-> "return", value |-> v]

Raise(e) == [kind |-> "raise", value |-> [kind |-> "exception", exc |-> e]]

EmptyDict == [k \in {} |-> NoneValue]

\* dict.get(key): the value, or None when the key is absent
DictGet(d, key) == IF key \in DOMAIN d THEN d[key] ELSE NoneValue

\* Python truth value of a dict or None: None and the empty dict are falsy
DictTruthy(d) == d # NoneValue /\ DOMAIN d # {}

-----------------------------------------------------------------------------
(* Types *)

MaterializationType == {"materialized_view", "table"}

RelationType == {"table", "view", "materialized_view"}

Strategy(name) == [kind |-> "strategy", name |-> name]

MaterializedViewMaterialization == Strategy("MaterializedViewMaterialization")

TableMaterialization == Strategy("TableMaterialization")

RelationFactories == {NoneValue, [kind |-> "RelationFactory"]}

\* the mappings a caller may hand to the constructor: none, an empty one, or a registry
MaterializationMaps ==
    { NoneValue,
      EmptyDict,
      [t \in {"materialized_view"} |-> MaterializedViewMaterialization],
      [t \in {"table"} |-> TableMaterialization],
      [t \in MaterializationType |->
          IF t = "table" THEN TableMaterialization ELSE MaterializedViewMaterialization] }

DefaultMaterializationMap ==
    [t \in {"materialized_view"} |-> MaterializedViewMaterialization]

\* a declared node as the runtime configuration resolves it, with the adapter-level
\* answers planning needs: the configuration the catalog describes for the existing
\* relation, whether the changed attributes can be altered in place, and whether a
\* replace is done by rename-swap
RuntimeConfig(type, query, described, alter_supported, rename_swap) ==
    [kind |-> "RuntimeConfig", type |-> type, query |-> query, described |-> described,
     alter_supported |-> alter_supported, rename_swap |-> rename_swap]

Queries == {"select 1", "select 2"}

RuntimeConfigs ==
    { RuntimeConfig(t, q, d, a, r) :
        t \in {"materialized_view", "table"}, q \in Queries, d \in Queries,
        a \in BOOLEAN, r \in BOOLEAN }

-----------------------------------------------------------------------------
(* Relation stubs: DatabaseRelationStub, SchemaRelationStub, RelationStub   *)

KeyError(key) ==
    [kind |-> "raise", value |-> [kind |-> "exception", exc |-> "KeyError", key |-> key]]

\* the dict d with only the keys of K
Restrict(d, K) == [k \in K |-> d[k]]

RenderPolicies == {[kind |-> "RenderPolicy"]}

\* the values a construction dict may give for "type": the relation types and one
\* value outside the enumerated set
TypeValues == RelationType \cup {"index"}

DatabaseDicts ==
    { Restrict([name |-> "db", render |-> r], K) :
        r \in RenderPolicies, K \in SUBSET {"name", "render"} }

SchemaDicts ==
    { Restrict([name |-> "public", database |-> db, render |-> r], K) :
        db \in DatabaseDicts, r \in RenderPolicies,
        K \in SUBSET {"name", "database", "render"} }

RelationDicts ==
    { Restrict([name |-> "mv1", schema |-> sc, render |-> r, type |-> t,
                can_be_renamed |-> c], K) :
        sc \in SchemaDicts, r \in RenderPolicies, t \in TypeValues, c \in BOOLEAN,
        K \in SUBSET {"name", "schema", "render", "type", "can_be_renamed"} }

\* DatabaseRelation.__init__, the dataclass constructor the stub class inherits
DatabaseRelation__init__(cls, name, render) ==
    Return([kind |-> cls, name |-> name, render |-> render])

\* SchemaRelation.__init__
SchemaRelation__init__(cls, name, database, render, DatabaseParser) ==
    Return([kind |-> cls, name |-> name, database |-> database, render |-> render,
            DatabaseParser |-> DatabaseParser])

\* Relation.__init__: the type of a relation is one of the enumerated set
Relation__init__(cls, name, schema, render, type, can_be_renamed, SchemaParser) ==
    IF type \notin RelationType
    THEN Raise("UnsupportedRelationTypeError")
    ELSE Return([kind |-> cls, name |-> name, schema |-> schema, render |-> render,
                 type |-> type, can_be_renamed |-> can_be_renamed,
                 SchemaParser |-> SchemaParser])

\* DatabaseRelation.from_dict, the constructor of the full database level
DatabaseRelation_from_dict(config_dict) ==
    IF {"name", "render"} \subseteq DOMAIN config_dict
    THEN DatabaseRelation__init__("DatabaseRelation", config_dict["name"],
                                  config_dict["render"])
    ELSE Raise("ConstructionError")

\* DatabaseRelationStub.from_dict reading "render" with dict.get
DatabaseRelationStub_from_dict_get(config_dict) ==
    IF "name" \notin DOMAIN config_dict THEN KeyError("name")
    ELSE DatabaseRelation__init__("DatabaseRelationStub", config_dict["name"],
                                  DictGet(config_dict, "render"))

\* DatabaseRelationStub.from_dict: the keys are read in the order of the dict display
DatabaseRelationStub_from_dict(config_dict) ==
    IF "name" \notin DOMAIN config_dict THEN KeyError("name")
    ELSE IF "render" \notin DOMAIN config_dict THEN KeyError("render")
    ELSE DatabaseRelation__init__("DatabaseRelationStub", config_dict["name"],
                                  config_dict["render"])

\* SchemaRelationStub.from_dict
SchemaRelationStub_from_dict(config_dict) ==
    IF "name" \notin DOMAIN config_dict THEN KeyError("name")
    ELSE IF "database" \notin DOMAIN config_dict THEN KeyError("database")
    ELSE LET database == DatabaseRelation_from_dict(config_dict["database"])
         IN  IF database.kind = "raise" THEN database
             ELSE IF "render" \notin DOMAIN config_dict THEN KeyError("render")
             ELSE SchemaRelation__init__("SchemaRelationStub", config_dict["name"],
                                         database.value, config_dict["render"],
                                         "DatabaseRelationStub")

\* RelationStub.from_dict not reading "can_be_renamed": every stub can be renamed
RelationStub_from_dict_renamable(config_dict) ==
    IF "name" \notin DOMAIN config_dict THEN KeyError("name")
    ELSE IF "schema" \notin DOMAIN config_dict THEN KeyError("schema")
    ELSE LET schema == SchemaRelationStub_from_dict(config_dict["schema"])
         IN  IF schema.kind = "raise" THEN schema
             ELSE IF "render" \notin DOMAIN config_dict THEN KeyError("render")
             ELSE IF "type" \notin DOMAIN config_dict THEN KeyError("type")
             ELSE Relation__init__("RelationStub", config_dict["name"], schema.value,
                                   config_dict["render"], config_dict["type"],
                                   TRUE, "SchemaRelationStub")

\* RelationStub.from_dict
RelationStub_from_dict(config_dict) ==
    IF "name" \notin DOMAIN config_dict THEN KeyError("name")
    ELSE IF "schema" \notin DOMAIN config_dict THEN KeyError("schema")
    ELSE LET schema == SchemaRelationStub_from_dict(config_dict["schema"])
         IN  IF schema.kind = "raise" THEN schema
             ELSE IF "render" \notin DOMAIN config_dict THEN KeyError("render")
             ELSE IF "type" \notin DOMAIN config_dict THEN KeyError("type")
             ELSE IF "can_be_renamed" \notin DOMAIN config_dict
                  THEN KeyError("can_be_renamed")
             ELSE Relation__init__("RelationStub", config_dict["name"], schema.value,
                                   config_dict["render"], config_dict["type"],
                                   config_dict["can_be_renamed"], "SchemaRelationStub")

\* the three stub classes and the from_dict of each
StubClasses == {"DatabaseRelationStub", "SchemaRelationStub", "RelationStub"}

from_dict(cls, config_dict) ==
    CASE cls = "DatabaseRelationStub" -> DatabaseRelationStub_from_dict(config_dict)
      [] cls = "SchemaRelationStub" -> SchemaRelationStub_from_dict(config_dict)
      [] cls = "RelationStub" -> RelationStub_from_dict(config_dict)

ConstructionDicts(cls) ==
    CASE cls = "DatabaseRelationStub" -> DatabaseDicts
      [] cls = "SchemaRelationStub" -> SchemaDicts
      [] cls = "RelationStub" -> RelationDicts

\* model nodes and introspection results handed to the parsers of the stub classes
ModelNodes ==
    { [kind |-> "ModelNode", name |-> "mv1", schema |-> "public", database |-> d,
       materialized |-> t] :
        d \in {"db", "other"}, t \in {"materialized_view", "table"} }

DescribeRelationResultsSet ==
    { [kind |-> "DescribeRelationResults", rows |-> rows] :
        rows \in {<<>>, <<[name |-> "mv1", query |-> "select 1"]>>,
                  <<[name |-> "mv1", query |-> "select 2"]>>} }

DatabaseRelationStub_parse_model_node(model_node) == EmptyDict

DatabaseRelationStub_parse_describe_relation_results(describe_relation_results) ==
    EmptyDict

SchemaRelationStub_parse_model_node(model_node) == EmptyDict

SchemaRelationStub_parse_describe_relation_results(describe_relation_results) ==
    EmptyDict

\* RelationStub.parse_model_node reading the name of the node
RelationStub_parse_model_node_reads(model_node) == [name |-> model_node.name]

RelationStub_parse_model_node(model_node) == EmptyDict

RelationStub_parse_describe_relation_results(describe_relation_results) == EmptyDict

parse_model_node(cls, model_node) ==
    CASE cls = "DatabaseRelationStub" -> DatabaseRelationStub_parse_model_node(model_node)
      [] cls = "SchemaRelationStub" -> SchemaRelationStub_parse_model_node(model_node)
      [] cls = "RelationStub" -> RelationStub_parse_model_node(model_node)

parse_describe_relation_results(cls, describe_relation_results) ==
    CASE cls = "DatabaseRelationStub" ->
            DatabaseRelationStub_parse_describe_relation_results(describe_relation_results)
      [] cls = "SchemaRelationStub" ->
            SchemaRelationStub_parse_describe_relation_results(describe_relation_results)
      [] cls = "RelationStub" ->
            RelationStub_parse_describe_relation_results(describe_relation_results)

\* the construction dict the executor writes for a relation it found in the catalog
StubDict(type, can_be_renamed) ==
    [name |-> "mv1",
     schema |-> [name |-> "public",
                 database |-> [name |-> "db", render |-> [kind |-> "RenderPolicy"]],
                 render |-> [kind |-> "RenderPolicy"]],
     render |-> [kind |-> "RenderPolicy"],
     type |-> type,
     can_be_renamed |-> can_be_renamed]

Stub(type, can_be_renamed) == RelationStub_from_dict(StubDict(type, can_be_renamed)).value

RelationStubs == { Stub(t, c) : t \in RelationType, c \in BOOLEAN }

Args(runtime_config, materialization_type, existing_relation_stub) ==
    [runtime_config |-> runtime_config,
     materialization_type |-> materialization_type,
     existing_relation_stub |-> existing_relation_stub]

-----------------------------------------------------------------------------
(* Materialization strategies: the state machine of the materialization     *)
(* decision                                                                 *)

MaterializationState(target, existing_relation_stub, described) ==
    IF existing_relation_stub = NoneValue THEN "DOES_NOT_EXIST"
    ELSE IF existing_relation_stub.type # target.type THEN "EXISTS_DIFFERENT_TYPE"
    ELSE IF described = target.query THEN "EXISTS_IDENTICAL_CONFIG"
    ELSE "EXISTS_CONFIG_CHANGED"

MaterializationPlan(state, alter_supported) ==
    CASE state = "DOES_NOT_EXIST" -> "create"
      [] state = "EXISTS_DIFFERENT_TYPE" -> "replace"
      [] state = "EXISTS_IDENTICAL_CONFIG" -> "no_op"
      [] state = "EXISTS_CONFIG_CHANGED" -> IF alter_supported THEN "alter" ELSE "replace"

\* RelationFactory.make_from_node_description: the target relation of the declared node
make_from_node_description(runtime_config) ==
    [kind |-> "Relation", type |-> runtime_config.type, query |-> runtime_config.query]

\* Materialization.from_runtime_config of the strategy class `parser`
from_runtime_config(parser, call) ==
    IF call.relation_factory = NoneValue
    THEN Raise("AttributeError")
    ELSE LET target == make_from_node_description(call.runtime_config)
             state == MaterializationState(target, call.existing_relation_stub,
                                           call.runtime_config.described)
         IN  Return([kind |-> "Materialization",
                     strategy |-> parser.name,
                     target_relation |-> target,
                     existing_relation_stub |-> call.existing_relation_stub,
                     state |-> state,
                     plan |-> MaterializationPlan(state, call.runtime_config.alter_supported),
                     rename_swap |-> call.runtime_config.rename_swap])

\* the operations a Materialization emits for its plan; a replace by rename-swap
\* needs an existing relation that can be renamed
Operations(materialization) ==
    CASE materialization.plan = "create" -> Return(<<"create">>)
      [] materialization.plan = "no_op" -> Return(<<>>)
      [] materialization.plan = "alter" -> Return(<<"alter">>)
      [] materialization.plan = "replace" ->
            IF ~materialization.rename_swap THEN Return(<<"drop", "create">>)
            ELSE IF ~materialization.existing_relation_stub.can_be_renamed
                 THEN Raise("RelationCannotBeRenamedError")
                 ELSE Return(<<"create_intermediate", "rename_existing_to_backup",
                               "rename_intermediate_to_target", "drop_backup">>)

-----------------------------------------------------------------------------
(* MaterializationFactory *)

\* MaterializationFactory.__init__
MaterializationFactory(relation_factory, materialization_map) ==
    [relation_factory |-> relation_factory,
     materialization_map |->
        IF DictTruthy(materialization_map) THEN materialization_map
        ELSE DefaultMaterializationMap]

\* _get_parser with dict.get(key, default): an unmapped type gets the default strategy
_get_parser_default(self, materialization_type) ==
    [value |-> IF materialization_type \in DOMAIN self.materialization_map
               THEN self.materialization_map[materialization_type]
               ELSE MaterializedViewMaterialization,
     self |-> self]

\* _get_parser with dict.pop(key, None): the entry it returns leaves the mapping
_get_parser_pop(self, materialization_type) ==
    [value |-> DictGet(self.materialization_map, materialization_type),
     self |-> [self EXCEPT !.materialization_map =
                  Restrict(@, DOMAIN @ \ {materialization_type})]]

\* MaterializationFactory._get_parser: the value it returns and the factory it leaves
_get_parser(self, materialization_type) ==
    [value |-> DictGet(self.materialization_map, materialization_type), self |-> self]

\* make_from_runtime_config not forwarding existing_relation_stub: the strategy gets
\* the default of the parameter, None
StrategyCall_no_stub(self, args) ==
    [runtime_config |-> args.runtime_config,
     relation_factory |-> self.relation_factory,
     existing_relation_stub |-> NoneValue]

\* the keyword arguments make_from_runtime_config hands to the strategy
StrategyCall(self, args) ==
    [runtime_config |-> args.runtime_config,
     relation_factory |-> self.relation_factory,
     existing_relation_stub |-> args.existing_relation_stub]

\* MaterializationFactory.make_from_runtime_config as one uninterrupted call: its
\* outcome, the factory it leaves, and the calls it made to strategies
make_from_runtime_config(self, dbg, args) ==
    LET got == _get_parser(self, args.materialization_type)
        parser == got.value
    IN  IF parser # NoneValue
        THEN IF dbg /\ got.self.relation_factory = NoneValue
             THEN [outcome |-> Raise("AssertionError"), self |-> got.self,
                   strategy_calls |-> <<>>]
             ELSE LET call == StrategyCall(got.self, args)
                  IN  [outcome |-> from_runtime_config(parser, call), self |-> got.self,
                       strategy_calls |-> <<[parser |-> parser, call |-> call]>>]
        ELSE [outcome |-> Return(NoneValue), self |-> got.self, strategy_calls |-> <<>>]

-----------------------------------------------------------------------------
(* Concurrent calls on one shared factory: one thread per node, every read  *)
(* of an attribute of the factory is a step of its own                      *)

EmptyWarehouse ==
    [relation |-> NoneValue, intermediate |-> NoneValue, backup |-> NoneValue]

IdleCall ==
    [pc |-> "idle", args |-> NoneValue, parser |-> NoneValue, outcome |-> NoneValue,
     strategy_calls |-> <<>>]

IdleRun ==
    [pc |-> "idle", args |-> NoneValue, outcome |-> NoneValue, emitted |-> NoneValue,
     pending |-> <<>>, start |-> NoneValue, before |-> NoneValue, runs |-> 0]

IdleOp == [cls |-> "none", method |-> "none", input |-> NoneValue, outcome |-> NoneValue]

\* the arguments the concurrent callers draw from
FactoryArgs ==
    { Args(RuntimeConfig("materialized_view", q, "select 1", FALSE, TRUE), t, s) :
        q \in Queries, t \in MaterializationType,
        s \in {NoneValue, Stub("materialized_view", FALSE)} }

InitFactory ==
    /\ \E rf \in RelationFactories, mm \in MaterializationMaps :
          /\ factory = MaterializationFactory(rf, mm)
          /\ constructed = [relation_factory |-> rf, materialization_map |-> mm,
                            self |-> MaterializationFactory(rf, mm)]
    /\ debug \in BOOLEAN
    /\ calls = [n \in Nodes |-> IdleCall]
    /\ warehouse = EmptyWarehouse
    /\ run = IdleRun
    /\ op = IdleOp

Call(n) ==
    /\ calls[n].pc = "idle"
    /\ \E a \in FactoryArgs :
          calls' = [calls EXCEPT ![n] = [IdleCall EXCEPT !.pc = "get_parser", !.args = a]]
    /\ UNCHANGED <<factory, constructed, debug, warehouse, run, op>>

GetParser(n) ==
    /\ calls[n].pc = "get_parser"
    /\ LET got == _get_parser(factory, calls[n].args.materialization_type)
       IN  /\ factory' = got.self
           /\ calls' = [calls EXCEPT ![n] =
                 IF got.value # NoneValue
                 THEN [@ EXCEPT !.pc = "assert", !.parser = got.value]
                 ELSE [@ EXCEPT !.pc = "done", !.outcome = Return(NoneValue)]]
    /\ UNCHANGED <<constructed, debug, warehouse, run, op>>

AssertRelationFactory(n) ==
    /\ calls[n].pc = "assert"
    /\ calls' = [calls EXCEPT ![n] =
          IF debug /\ factory.relation_factory = NoneValue
          THEN [@ EXCEPT !.pc = "done", !.outcome = Raise("AssertionError")]
          ELSE [@ EXCEPT !.pc = "delegate"]]
    /\ UNCHANGED <<factory, constructed, debug, warehouse, run, op>>

Delegate(n) ==
    /\ calls[n].pc = "delegate"
    /\ LET call == StrategyCall(factory, calls[n].args)
       IN  calls' = [calls EXCEPT ![n] =
              [@ EXCEPT !.pc = "done",
                        !.outcome = from_runtime_config(calls[n].parser, call),
                        !.strategy_calls =
                            Append(@, [parser |-> calls[n].parser, call |-> call])]]
    /\ UNCHANGED <<factory, constructed, debug, warehouse, run, op>>

\* the caller takes the outcome; the node's thread is free for its next call
Finish(n) ==
    /\ calls[n].pc = "done"
    /\ calls' = [calls EXCEPT ![n] = IdleCall]
    /\ UNCHANGED <<factory, constructed, debug, warehouse, run, op>>

NextFactory ==
    \E n \in Nodes :
        \/ Call(n)
        \/ GetParser(n)
        \/ AssertRelationFactory(n)
        \/ Delegate(n)
        \/ Finish(n)

SpecFactory == InitFactory /\ [][NextFactory]_vars

-----------------------------------------------------------------------------
(* Planning and applying the materialization of one node: the executor looks *)
(* the relation up in the catalog, asks the factory for a Materialization,  *)
(* takes its operations and runs them against the warehouse                 *)

WarehouseRelation(type, query, can_be_renamed) ==
    [kind |-> "relation", type |-> type, query |-> query,
     can_be_renamed |-> can_be_renamed]

WarehouseRelations ==
    { WarehouseRelation(t, q, c) : t \in RelationType, q \in Queries, c \in BOOLEAN }

\* the stub the executor builds from its catalog lookup
ExistingStub(w) ==
    IF w.relation = NoneValue THEN NoneValue
    ELSE Stub(w.relation.type, w.relation.can_be_renamed)

\* the configuration the catalog describes for the existing relation
Described(w) == IF w.relation = NoneValue THEN "none" ELSE w.relation.query

\* the arguments of the call for a declared node, against the warehouse as it is
RunArgs(type, query, alter_supported, rename_swap, w) ==
    Args(RuntimeConfig(type, query, Described(w), alter_supported, rename_swap),
         type, ExistingStub(w))

\* the executor running one operation
ApplyOperation(w, operation, target, can_be_renamed) ==
    CASE operation = "create" ->
            [w EXCEPT !.relation =
                WarehouseRelation(target.type, target.query, can_be_renamed)]
      [] operation = "drop" -> [w EXCEPT !.relation = NoneValue]
      [] operation = "alter" ->
            [w EXCEPT !.relation =
                WarehouseRelation(@.type, target.query, @.can_be_renamed)]
      [] operation = "create_intermediate" ->
            [w EXCEPT !.intermediate =
                WarehouseRelation(target.type, target.query, can_be_renamed)]
      [] operation = "rename_existing_to_backup" ->
            [w EXCEPT !.backup = w.relation, !.relation = NoneValue]
      [] operation = "rename_intermediate_to_target" ->
            [w EXCEPT !.relation = w.intermediate, !.intermediate = NoneValue]
      [] operation = "drop_backup" -> [w EXCEPT !.backup = NoneValue]

InitPlan ==
    /\ \E rf \in RelationFactories, mm \in MaterializationMaps :
          /\ factory = MaterializationFactory(rf, mm)
          /\ constructed = [relation_factory |-> rf, materialization_map |-> mm,
                            self |-> MaterializationFactory(rf, mm)]
    /\ debug \in BOOLEAN
    /\ calls = [n \in Nodes |-> IdleCall]
    /\ \E r \in WarehouseRelations \cup {NoneValue} :
          warehouse = [EmptyWarehouse EXCEPT !.relation = r]
    /\ run = IdleRun
    /\ op = IdleOp

\* the first run of a declared node
StartRun ==
    /\ run.pc = "idle"
    /\ \E t \in MaterializationType, q \in Queries, a \in BOOLEAN, r \in BOOLEAN :
          run' = [IdleRun EXCEPT !.pc = "plan",
                                 !.args = RunArgs(t, q, a, r, warehouse),
                                 !.start = warehouse,
                                 !.before = warehouse,
                                 !.runs = 1]
    /\ UNCHANGED <<factory, constructed, debug, calls, warehouse, op>>

\* the call of make_from_runtime_config
Plan ==
    /\ run.pc = "plan"
    /\ LET made == make_from_runtime_config(factory, debug, run.args)
       IN  /\ factory' = made.self
           /\ run' = [run EXCEPT
                 !.outcome = made.outcome,
                 !.pc = IF made.outcome.kind = "return" /\ made.outcome.value # NoneValue
                        THEN "emit" ELSE "done"]
    /\ UNCHANGED <<constructed, debug, calls, warehouse, op>>

\* the Materialization gives its operations, or fails
Emit ==
    /\ run.pc = "emit"
    /\ LET emitted == Operations(run.outcome.value)
       IN  run' = [run EXCEPT
              !.emitted = emitted,
              !.pending = IF emitted.kind = "return" THEN emitted.value ELSE <<>>,
              !.pc = IF emitted.kind = "return" THEN "apply" ELSE "done"]
    /\ UNCHANGED <<factory, constructed, debug, calls, warehouse, op>>

\* the executor runs the next operation
Apply ==
    /\ run.pc = "apply"
    /\ run.pending # <<>>
    /\ \E c \in BOOLEAN :
          warehouse' = ApplyOperation(warehouse, Head(run.pending),
                                      run.outcome.value.target_relation, c)
    /\ run' = [run EXCEPT !.pending = Tail(@)]
    /\ UNCHANGED <<factory, constructed, debug, calls, op>>

\* every operation has run
Applied ==
    /\ run.pc = "apply"
    /\ run.pending = <<>>
    /\ run' = [run EXCEPT !.pc = "done"]
    /\ UNCHANGED <<factory, constructed, debug, calls, warehouse, op>>

\* the same declared node is run again, against the warehouse as it is now
Rerun ==
    /\ run.pc = "done"
    /\ run.runs < MaxRuns
    /\ LET rc == run.args.runtime_config
       IN  run' = [IdleRun EXCEPT
              !.pc = "plan",
              !.args = RunArgs(rc.type, rc.query, rc.alter_supported, rc.rename_swap,
                               warehouse),
              !.start = warehouse,
              !.before = run.before,
              !.runs = run.runs + 1]
    /\ UNCHANGED <<factory, constructed, debug, calls, warehouse, op>>

EndRun ==
    /\ run.pc = "done"
    /\ run' = IdleRun
    /\ UNCHANGED <<factory, constructed, debug, calls, warehouse, op>>

NextPlan ==
    \/ StartRun
    \/ Plan
    \/ Emit
    \/ Apply
    \/ Applied
    \/ Rerun
    \/ EndRun

SpecPlan == InitPlan /\ [][NextPlan]_vars

-----------------------------------------------------------------------------
(* Calls of the classmethods of the stub classes *)

InitStub ==
    /\ factory = MaterializationFactory(NoneValue, NoneValue)
    /\ constructed = [relation_factory |-> NoneValue, materialization_map |-> NoneValue,
                      self |-> MaterializationFactory(NoneValue, NoneValue)]
    /\ debug = TRUE
    /\ calls = [n \in Nodes |-> IdleCall]
    /\ warehouse = EmptyWarehouse
    /\ run = IdleRun
    /\ op = IdleOp

FromDict(cls) ==
    /\ \E config_dict \in ConstructionDicts(cls) :
          op' = [cls |-> cls, method |-> "from_dict", input |-> config_dict,
                 outcome |-> from_dict(cls, config_dict)]
    /\ UNCHANGED <<factory, constructed, debug, calls, warehouse, run>>

ParseModelNode(cls) ==
    /\ \E model_node \in ModelNodes :
          op' = [cls |-> cls, method |-> "parse_model_node", input |-> model_node,
                 outcome |-> Return(parse_model_node(cls, model_node))]
    /\ UNCHANGED <<factory, constructed, debug, calls, warehouse, run>>

ParseDescribeRelationResults(cls) ==
    /\ \E results \in DescribeRelationResultsSet :
          op' = [cls |-> cls, method |-> "parse_describe_relation_results",
                 input |-> results,
                 outcome |-> Return(parse_describe_relation_results(cls, results))]
    /\ UNCHANGED <<factory, constructed, debug, calls, warehouse, run>>

NextStub ==
    \E cls \in StubClasses :
        \/ FromDict(cls)
        \/ ParseModelNode(cls)
        \/ ParseDescribeRelationResults(cls)

SpecStub == InitStub /\ [][NextStub]_vars

-----------------------------------------------------------------------------
(* contracts/graph/unparsed.py: Time, FreshnessThreshold, Maturity and       *)
(* UnparsedExposure.validate                                                *)

Some(v) == [kind |-> "some", value |-> v]

TimePeriod == {"minute", "hour", "day"}

\* TimePeriod.plural
plural(period) == CASE period = "minute" -> "minutes"
                    [] period = "hour" -> "hours"
                    [] period = "day" -> "days"

\* timedelta(**kwargs).total_seconds() for the one keyword Time.exceeded passes
total_seconds(keyword, count) ==
    CASE keyword = "minutes" -> count * 60
      [] keyword = "hours" -> count * 3600
      [] keyword = "days" -> count * 86400

Counts == (0 - 1)..MaxCount

\* Time: count and period are both optional
Times ==
    { [count |-> c, period |-> p] :
        c \in {NoneValue} \cup { Some(n) : n \in Counts },
        p \in {NoneValue} \cup { Some(q) : q \in TimePeriod } }

\* ages, in seconds, at one second below every threshold, on it and one above it
Ages ==
    UNION { { total_seconds(plural(q), n) - 1, total_seconds(plural(q), n),
              total_seconds(plural(q), n) + 1 } : n \in Counts, q \in TimePeriod }

\* Time.exceeded with >= for >
Time_exceeded_ge(self, actual_age) ==
    IF self.period = NoneValue \/ self.count = NoneValue THEN FALSE
    ELSE actual_age >= total_seconds(plural(self.period.value), self.count.value)

\* Time.exceeded with < for >
Time_exceeded_lt(self, actual_age) ==
    IF self.period = NoneValue \/ self.count = NoneValue THEN FALSE
    ELSE actual_age < total_seconds(plural(self.period.value), self.count.value)

\* Time.exceeded
Time_exceeded(self, actual_age) ==
    IF self.period = NoneValue \/ self.count = NoneValue THEN FALSE
    ELSE actual_age > total_seconds(plural(self.period.value), self.count.value)

\* Time.__bool__
Time__bool__(self) == self.count # NoneValue /\ self.period # NoneValue

\* truth value of an Optional[Time]: None is falsy
TimeTruthy(time) == time # NoneValue /\ Time__bool__(time)

\* FreshnessThreshold: warn_after and error_after are a Time or None
FreshnessThresholds ==
    { [warn_after |-> w, error_after |-> e] :
        w \in Times \cup {NoneValue}, e \in Times \cup {NoneValue} }

\* FreshnessThreshold.status testing warn_after first
FreshnessThreshold_status_warn_first(self, age) ==
    IF TimeTruthy(self.warn_after) /\ Time_exceeded(self.warn_after, age) THEN "warn"
    ELSE IF TimeTruthy(self.error_after) /\ Time_exceeded(self.error_after, age)
         THEN "error"
    ELSE "pass"

\* FreshnessThreshold.status
FreshnessThreshold_status(self, age) ==
    IF TimeTruthy(self.error_after) /\ Time_exceeded(self.error_after, age) THEN "error"
    ELSE IF TimeTruthy(self.warn_after) /\ Time_exceeded(self.warn_after, age)
         THEN "warn"
    ELSE "pass"

\* FreshnessThreshold.__bool__
FreshnessThreshold__bool__(self) ==
    TimeTruthy(self.warn_after) \/ TimeTruthy(self.error_after)

Maturity == {"low", "medium", "high"}

\* the tuple `order` of Maturity.__lt__
MaturityOrder == <<"low", "medium", "high">>

\* tuple.index: the first position that holds x, counted from 0
TupleIndex(t, x) ==
    (CHOOSE i \in 1..Len(t) : t[i] = x /\ \A j \in 1..(i - 1) : t[j] # x) - 1

\* Maturity.__lt__
Maturity__lt__(self, other) ==
    TupleIndex(MaturityOrder, self) < TupleIndex(MaturityOrder, other)

\* Maturity.__gt__ without the test for equality
Maturity__gt__not_lt(self, other) == ~Maturity__lt__(self, other)

\* Maturity.__gt__
Maturity__gt__(self, other) == self # other /\ ~Maturity__lt__(self, other)

\* Maturity.__ge__
Maturity__ge__(self, other) == self = other \/ ~Maturity__lt__(self, other)

\* Maturity.__le__
Maturity__le__(self, other) == self = other \/ Maturity__lt__(self, other)

\* the characters exposure names are written with: a letter, a digit, the
\* underscore, the hyphen, a blank and a newline
Characters == {"a", "1", "_", "-", " ", "\n"}

\* the class \w of the pattern
WordCharacters == {"a", "1", "_"}

\* the class [\w-] of the pattern
PatternCharacters == WordCharacters \cup {"-"}

ExposureNames == UNION { [1..len -> Characters] : len \in 0..MaxNameLen }

\* re.match(r"[\w-]+$", name): one or more characters of the class from the start,
\* then the end of the string or the newline that ends it
re_match(name) ==
    \E k \in 1..Len(name) :
        /\ \A i \in 1..k : name[i] \in PatternCharacters
        /\ \/ k = Len(name)
           \/ k = Len(name) - 1 /\ name[Len(name)] = "\n"

\* UnparsedExposure.validate: the deprecation warnings it issues for data
UnparsedExposure_validate(data) ==
    IF "name" \in DOMAIN data
    THEN IF ~re_match(data["name"])
         THEN <<[warning |-> "exposure-name", exposure |-> data["name"]]>>
         ELSE <<>>
    ELSE <<>>

ExposureData ==
    { [k \in {"name"} |-> name] : name \in ExposureNames } \cup {EmptyDict}

\* the severity of a freshness status
Severity(status) == CASE status = "pass" -> 0 [] status = "warn" -> 1 [] status = "error" -> 2

Exceeded ==
    /\ op = IdleOp
    /\ \E self \in Times, actual_age \in Ages :
          op' = [cls |-> "Time", method |-> "exceeded",
                 input |-> [self |-> self, actual_age |-> actual_age],
                 outcome |-> Return(Time_exceeded(self, actual_age))]
    /\ UNCHANGED <<factory, constructed, debug, calls, warehouse, run>>

\* status asked of one threshold at an age and again at a later age
Status ==
    /\ op = IdleOp
    /\ \E self \in FreshnessThresholds, age \in Ages, later \in Ages :
          /\ age <= later
          /\ op' = [cls |-> "FreshnessThreshold", method |-> "status",
                    input |-> [self |-> self, age |-> age, later |-> later,
                               truthy |-> FreshnessThreshold__bool__(self)],
                    outcome |-> Return([age |-> FreshnessThreshold_status(self, age),
                                        later |-> FreshnessThreshold_status(self, later)])]
    /\ UNCHANGED <<factory, constructed, debug, calls, warehouse, run>>

\* the four comparison operators on a pair of maturities, and < on a third
Compare ==
    /\ op = IdleOp
    /\ \E a \in Maturity, b \in Maturity, c \in Maturity :
          op' = [cls |-> "Maturity", method |-> "compare",
                 input |-> [a |-> a, b |-> b, c |-> c],
                 outcome |-> Return([lt |-> Maturity__lt__(a, b),
                                     gt |-> Maturity__gt__(a, b),
                                     ge |-> Maturity__ge__(a, b),
                                     le |-> Maturity__le__(a, b),
                                     eq |-> a = b,
                                     lt_bc |-> Maturity__lt__(b, c),
                                     lt_ac |-> Maturity__lt__(a, c)])]
    /\ UNCHANGED <<factory, constructed, debug, calls, warehouse, run>>

Validate ==
    /\ op = IdleOp
    /\ \E data \in ExposureData :
          op' = [cls |-> "UnparsedExposure", method |-> "validate", input |-> data,
                 outcome |-> Return(UnparsedExposure_validate(data))]
    /\ UNCHANGED <<factory, constructed, debug, calls, warehouse, run>>

\* the caller has the result of the call
TakeResult ==
    /\ op # IdleOp
    /\ op.cls \in {"Time", "FreshnessThreshold", "Maturity", "UnparsedExposure"}
    /\ op' = IdleOp
    /\ UNCHANGED <<factory, constructed, debug, calls, warehouse, run>>

NextUnparsed ==
    \/ TakeResult
    \/ Exceeded
    \/ Status
    \/ Compare
    \/ Validate

SpecUnparsed == InitStub /\ [][NextUnparsed]_vars

-----------------------------------------------------------------------------
(* Properties of MaterializationFactory *)

Done(n) == calls[n].pc = "done"

Mapped(n) == calls[n].args.materialization_type \in DOMAIN factory.materialization_map

\* the one call the strategy of node n's type is expected to get
ExpectedStrategyCall(n) ==
    [parser |-> factory.materialization_map[calls[n].args.materialization_type],
     call |-> [runtime_config |-> calls[n].args.runtime_config,
               relation_factory |-> constructed.relation_factory,
               existing_relation_stub |-> calls[n].args.existing_relation_stub]]

\* C1: a call of make_from_runtime_config with a materialization type that is not a
\* key of the factory's mapping returns None, raises nothing and calls no strategy,
\* whatever runtime_config and existing_relation_stub are.
C1_UnmappedTypeReturnsNone ==
    \A n \in Nodes :
        (Done(n) /\ ~Mapped(n)) =>
            /\ calls[n].outcome = Return(NoneValue)
            /\ calls[n].strategy_calls = <<>>

\* C1 witness: type table asked of a factory that registers only materialized_view
C1_Witness ==
    \E n \in Nodes :
        /\ Done(n)
        /\ calls[n].args.materialization_type = "table"
        /\ DOMAIN factory.materialization_map = {"materialized_view"}
        /\ calls[n].args.existing_relation_stub # NoneValue
        /\ calls[n].outcome = Return(NoneValue)

C3_NoSharedMutableState ==
    /\ factory = constructed.self
    /\ \A n \in Nodes :
          Done(n) =>
              calls[n].outcome =
                  make_from_runtime_config(constructed.self, debug, calls[n].args).outcome
    /\ \A m, n \in Nodes :
          (Done(m) /\ Done(n) /\ calls[m].args = calls[n].args) =>
              calls[m].outcome = calls[n].outcome

\* C3 witness: two calls finished side by side, one returning None and one whose
\* strategy raised
C3_Witness ==
    \E m, n \in Nodes :
        /\ m # n /\ Done(m) /\ Done(n)
        /\ calls[m].outcome = Return(NoneValue)
        /\ calls[n].outcome.kind = "raise"
        /\ Len(calls[n].strategy_calls) = 1

-----------------------------------------------------------------------------
(* Properties of the stub classes *)

\* the keys of the construction dict of a class, in the order from_dict reads them
KeysInOrder(cls) ==
    CASE cls = "DatabaseRelationStub" -> <<"name", "render">>
      [] cls = "SchemaRelationStub" -> <<"name", "database", "render">>
      [] cls = "RelationStub" -> <<"name", "schema", "render">>

KeyAbsent(cls, d) == \E i \in 1..Len(KeysInOrder(cls)) : KeysInOrder(cls)[i] \notin DOMAIN d

FirstAbsentKey(cls, d) ==
    LET i == CHOOSE i \in 1..Len(KeysInOrder(cls)) :
                 /\ KeysInOrder(cls)[i] \notin DOMAIN d
                 /\ \A j \in 1..(i - 1) : KeysInOrder(cls)[j] \in DOMAIN d
    IN  KeysInOrder(cls)[i]

DatabaseDictComplete(d) == {"name", "render"} \subseteq DOMAIN d

SchemaDictComplete(d) ==
    /\ {"name", "database", "render"} \subseteq DOMAIN d
    /\ DatabaseDictComplete(d["database"])

\* the nested dict of d is absent or has every key, at every level below
NestedAbsentOrComplete(cls, d) ==
    CASE cls = "DatabaseRelationStub" -> TRUE
      [] cls = "SchemaRelationStub" ->
            "database" \in DOMAIN d => DatabaseDictComplete(d["database"])
      [] cls = "RelationStub" ->
            "schema" \in DOMAIN d => SchemaDictComplete(d["schema"])

C9_UnsupportedTypeRaises ==
    ( /\ op.method = "from_dict"
      /\ op.cls = "RelationStub"
      /\ "type" \in DOMAIN op.input
      /\ op.input["type"] \notin RelationType ) =>
        op.outcome = Raise("UnsupportedRelationTypeError")

\* C10: parse_model_node and parse_describe_relation_results of each stub class
\* return the empty mapping for every model node and every introspection result.
C10_ParsersReturnEmpty ==
    (op.method \in {"parse_model_node", "parse_describe_relation_results"}) =>
        op.outcome = Return(EmptyDict)

\* C10 witness: RelationStub.parse_model_node on a node that declares a table
C10_Witness ==
    /\ op.method = "parse_model_node"
    /\ op.cls = "RelationStub"
    /\ op.input.materialized = "table"
    /\ op.outcome = Return(EmptyDict)

-----------------------------------------------------------------------------
(* Properties of the materialization decision *)

\* the factory returned a Materialization for the run
Planned ==
    /\ run.outcome # NoneValue
    /\ run.outcome.kind = "return"
    /\ run.outcome.value # NoneValue

\* the relation the run found in the warehouse when it started
Existing == run.start.relation

Declared == run.args.runtime_config

\* C4: when the existing relation stub is None the state is DOES_NOT_EXIST and the
\* plan is create, for every declared node, and create is the plan only then.
C4_CreateIffNoStub ==
    Planned =>
        /\ (run.args.existing_relation_stub = NoneValue) =>
              /\ run.outcome.value.state = "DOES_NOT_EXIST"
              /\ run.outcome.value.plan = "create"
        /\ (run.outcome.value.plan = "create") =>
              run.args.existing_relation_stub = NoneValue

\* C4 witness: a node planned with no existing relation, plan create
C4_Witness ==
    /\ Planned
    /\ run.args.existing_relation_stub = NoneValue
    /\ run.outcome.value.plan = "create"
    /\ run.pc = "done"
    /\ warehouse.relation # NoneValue

\* C5: when a stub is present and its type differs from the target's, the plan is
\* replace (drop-and-create), whether or not the configuration differs and whether
\* or not alteration in place is supported.
C5_TypeMismatchReplaces ==
    ( /\ Planned
      /\ run.args.existing_relation_stub # NoneValue
      /\ run.args.existing_relation_stub.type # Declared.type ) =>
        /\ run.outcome.value.state = "EXISTS_DIFFERENT_TYPE"
        /\ run.outcome.value.plan = "replace"

\* C5 witness: an existing view with the declared configuration, alteration supported,
\* and a declared materialized view: plan replace
C5_Witness ==
    /\ Planned
    /\ run.args.existing_relation_stub # NoneValue
    /\ run.args.existing_relation_stub.type = "view"
    /\ Declared.type = "materialized_view"
    /\ Declared.described = Declared.query
    /\ Declared.alter_supported
    /\ run.outcome.value.plan = "replace"

\* the declared node against the existing relation asks for a replace
ReplaceNeeded ==
    /\ Existing # NoneValue
    /\ \/ Existing.type # Declared.type
       \/ Existing.query # Declared.query /\ ~Declared.alter_supported

\* C6: when a replace by rename-swap is attempted and the existing relation's stub has
\* can_be_renamed = false, RelationCannotBeRenamedError is raised, no operation is
\* emitted, the warehouse is as the run found it, and the run of the node is over:
\* no retry, no other plan.
C6_CannotBeRenamedFails ==
    ( /\ Planned
      /\ run.emitted # NoneValue
      /\ ReplaceNeeded
      /\ Declared.rename_swap
      /\ ~Existing.can_be_renamed ) =>
        /\ run.emitted = Raise("RelationCannotBeRenamedError")
        /\ run.pending = <<>>
        /\ warehouse = run.start
        /\ run.pc = "done"

\* C6 witness: Scenario C, an existing materialized view that cannot be renamed, a
\* changed query, no alteration in place
C6_Witness ==
    /\ Planned
    /\ Existing # NoneValue
    /\ Existing.type = "materialized_view"
    /\ Declared.type = "materialized_view"
    /\ ~Existing.can_be_renamed
    /\ Existing.query # Declared.query
    /\ ~Declared.alter_supported
    /\ run.emitted = Raise("RelationCannotBeRenamedError")

\* the series of runs started on a relation of the declared type with the declared
\* configuration
IdenticalAtFirstRun ==
    /\ run.pc # "idle"
    /\ run.before.relation # NoneValue
    /\ run.before.relation.type = Declared.type
    /\ run.before.relation.query = Declared.query

\* C7: when the existing relation has the target's type and the declared
\* configuration, every run of the series selects no-op, emits no operation, and the
\* warehouse stays as it was before the first run.
C7_NoOpIsIdempotent ==
    IdenticalAtFirstRun =>
        /\ warehouse = run.before
        /\ Planned =>
              /\ run.outcome.value.state = "EXISTS_IDENTICAL_CONFIG"
              /\ run.outcome.value.plan = "no_op"
        /\ (run.emitted # NoneValue) => run.emitted = Return(<<>>)

\* C7 witness: the second run of such a series is over, its plan no-op
C7_Witness ==
    /\ IdenticalAtFirstRun
    /\ run.runs >= 2
    /\ run.pc = "done"
    /\ Planned
    /\ run.outcome.value.plan = "no_op"
    /\ run.emitted = Return(<<>>)

\* C11: every RelationStub that from_dict builds is a stub at all three levels: a
\* RelationStub whose schema is a SchemaRelationStub whose database is a
\* DatabaseRelationStub, with name, render, type and can_be_renamed as in the dict.
C11_StubAtEveryLevel ==
    ( /\ op.method = "from_dict"
      /\ op.cls = "RelationStub"
      /\ op.outcome.kind = "return" ) =>
        /\ op.outcome.value.kind = "RelationStub"
        /\ op.outcome.value.schema.kind = "SchemaRelationStub"
        /\ op.outcome.value.schema.database.kind = "DatabaseRelationStub"
        /\ op.outcome.value.name = op.input["name"]
        /\ op.outcome.value.render = op.input["render"]
        /\ op.outcome.value.type = op.input["type"]
        /\ op.outcome.value.can_be_renamed = op.input["can_be_renamed"]

-----------------------------------------------------------------------------
(* Properties of Time, FreshnessThreshold, Maturity and UnparsedExposure *)

\* the length of a period in seconds
PeriodSeconds(period) ==
    CASE period = "minute" -> 60 [] period = "hour" -> 3600 [] period = "day" -> 86400

\* a Time that is there and has both its count and its period
Configured(time) ==
    time # NoneValue /\ time.count # NoneValue /\ time.period # NoneValue

Threshold(time) == time.count.value * PeriodSeconds(time.period.value)

\* C12: Time.exceeded is False when count or period is None; otherwise it is True
\* exactly when actual_age is strictly greater than count times the seconds of the
\* period, so an age on the threshold is not exceeded.
C12_ExceededIsStrict ==
    (op.method = "exceeded") =>
        op.outcome.value =
            ( /\ Configured(op.input.self)
              /\ op.input.actual_age > Threshold(op.input.self) )

\* C12 witness: two hours asked at 7200 seconds, not exceeded
C12_Witness ==
    /\ op.method = "exceeded"
    /\ op.input.self = [count |-> Some(2), period |-> Some("hour")]
    /\ op.input.actual_age = 7200
    /\ op.outcome = Return(FALSE)

\* C13: status is Error exactly when error_after is configured and the age exceeds
\* it; otherwise Warn exactly when warn_after is configured and the age exceeds it;
\* otherwise Pass. A falsy threshold gives Pass at every age.
C13_ErrorBeforeWarn ==
    (op.method = "status") =>
        LET self == op.input.self
            age == op.input.age
            error == Configured(self.error_after) /\ age > Threshold(self.error_after)
            warn == Configured(self.warn_after) /\ age > Threshold(self.warn_after)
        IN  /\ op.outcome.value.age =
                  IF error THEN "error" ELSE IF warn THEN "warn" ELSE "pass"
            /\ ~op.input.truthy => op.outcome.value.age = "pass"
            /\ op.input.truthy = (Configured(self.warn_after) \/ Configured(self.error_after))

\* C13 witness: an age beyond both thresholds, warn_after the shorter one: Error
C13_Witness ==
    /\ op.method = "status"
    /\ Configured(op.input.self.warn_after)
    /\ Configured(op.input.self.error_after)
    /\ Threshold(op.input.self.warn_after) < Threshold(op.input.self.error_after)
    /\ op.input.age > Threshold(op.input.self.error_after)
    /\ op.outcome.value.age = "error"

\* C14: status is monotone in age: at a later age the status of the same threshold
\* is at least as severe, in the order Pass < Warn < Error, also when error_after is
\* shorter than warn_after.
C14_StatusMonotone ==
    (op.method = "status") =>
        Severity(op.outcome.value.age) <= Severity(op.outcome.value.later)

\* C14 witness: error_after shorter than warn_after, an age between the two and a
\* later age beyond both
C14_Witness ==
    /\ op.method = "status"
    /\ Configured(op.input.self.warn_after)
    /\ Configured(op.input.self.error_after)
    /\ Threshold(op.input.self.error_after) < Threshold(op.input.self.warn_after)
    /\ op.input.age > Threshold(op.input.self.error_after)
    /\ op.input.age < Threshold(op.input.self.warn_after)
    /\ op.input.later > Threshold(op.input.self.warn_after)
    /\ op.outcome.value = [age |-> "error", later |-> "error"]

\* C15: the comparison operators of Maturity are the total order low < medium < high
\* and agree: exactly one of a < b, a == b, a > b holds; a <= b iff a < b or a == b;
\* a >= b iff not a < b; and < is transitive.
C15_MaturityTotalOrder ==
    (op.method = "compare") =>
        LET r == op.outcome.value
            a == op.input.a
            b == op.input.b
        IN  /\ r.lt = (<<a, b>> \in {<<"low", "medium">>, <<"low", "high">>,
                                      <<"medium", "high">>})
            /\ (r.lt /\ ~r.eq /\ ~r.gt) \/ (~r.lt /\ r.eq /\ ~r.gt)
                                         \/ (~r.lt /\ ~r.eq /\ r.gt)
            /\ r.le = (r.lt \/ r.eq)
            /\ r.ge = ~r.lt
            /\ (r.lt /\ r.lt_bc) => r.lt_ac

\* C15 witness: low < medium < high compared
C15_Witness ==
    /\ op.method = "compare"
    /\ op.input = [a |-> "low", b |-> "medium", c |-> "high"]
    /\ op.outcome.value.lt /\ op.outcome.value.lt_bc /\ op.outcome.value.lt_ac
    /\ op.outcome.value.le /\ ~op.outcome.value.ge

\* C16: for a name of at least one character, validate issues the exposure-name
\* deprecation warning when the name contains a character other than alphanumerics
\* and underscores, and no warning when it is made only of alphanumerics and
\* underscores.
C16_WarnsOnOtherCharacters ==
    ( /\ op.method = "validate"
      /\ "name" \in DOMAIN op.input
      /\ op.input["name"] # <<>> ) =>
        LET name == op.input["name"]
        IN  (op.outcome.value # <<>>) =
                (\E i \in 1..Len(name) : name[i] \notin {"a", "1", "_"})

\* C17: a factory constructed with a relation_factory and a mapping, an empty one
\* included, returns None
\* for every type that is not a key of the mapping it was given; the default
\* mapping serves only a factory constructed without one.
C17_DispatchesOnPassedMap ==
    \A n \in Nodes :
        ( /\ Done(n)
          /\ constructed.relation_factory # NoneValue
          /\ constructed.materialization_map # NoneValue
          /\ calls[n].args.materialization_type
                \notin DOMAIN constructed.materialization_map ) =>
            calls[n].outcome = Return(NoneValue)

====
